---- MODULE Spec2Model ----
(***************************************************************************)
(* The Rumi integration: the auth, pull_observations and                   *)
(* fetch_farm_observations action handlers (app/actions/handlers.py), the  *)
(* vendor client they call (app/actions/client.py) and the action          *)
(* configurations (app/actions/configurations.py).                         *)
(*                                                                         *)
(* Time is counted in units of 12 hours: a day is two units and the cache  *)
(* expiry of 43200 s is one unit.  A timestamp is an integer number of     *)
(* units since an arbitrary origin.                                        *)
(***************************************************************************)
EXTENDS Integers, Sequences, FiniteSets, TLC

VARIABLES now, main, cyc, cursor, cache, call

vars == <<now, main, cyc, cursor, cache, call>>

(***************************************************************************)
(* Bounds of the model.                                                    *)
(***************************************************************************)
MaxTime == 1
MaxAttempts == 2
MaxCycles == 2
MaxRuns == 2
MaxBusy == 2
MaxAnimals == 2

(***************************************************************************)
(* Constants of the program.                                               *)
(***************************************************************************)
MinLookbackDays == 1
DefaultLookbackDays == 2
MaxLookbackDays == 5
BatchSize == 200
Expire == 1
UnitsPerDay == 2

FarmIds == {"farm1", "farm2"}

\* client.py:15-19, class Farm: the display name the vendor sends with an id.
FarmName(f) == IF f = "farm1" THEN "Farm 1" ELSE "Farm 2"

(***************************************************************************)
(* Values.                                                                 *)
(***************************************************************************)
NoValue == [k |-> "none"]
Ret(v) == [k |-> "ret", v |-> v]
Exc(name, status) == [k |-> "exc", name |-> name, status |-> status]

\* A parsed JSON array.
List(items) == [tag |-> "list", items |-> items]
\* response.text: the characters of the body.
Text(chars) == [tag |-> "text", items |-> chars]
\* The JSON text of an empty array, as response.text gives it.
EmptyArrayText == <<"[", "]">>

\* Python truth value of a list or a str: non-empty.
Truthy(v) == Len(v.items) > 0

(***************************************************************************)
(* The vendor's HTTP responses.  Status 0 stands for a transport failure   *)
(* (httpx.TransportError: no response at all).                             *)
(***************************************************************************)
Statuses == {200, 401, 404, 500, 503, 0}

\* The farm lists the vendor may send: arrays of distinct farms.
FarmBodies ==
    {<<>>} \cup {<<f>> : f \in FarmIds}
           \cup {<<f, g>> : <<f, g>> \in {p \in FarmIds \X FarmIds : p[1] # p[2]}}

\* Classify without its 404 branch.
Classify_No404(status) ==
    IF status = 401 THEN Exc("RumiUnauthorizedException", 401)
    ELSE Exc("HTTPStatusError", status)

\* client.py:79-84 (and 111-116, 163-168): what the except clause raises for
\* a response that raise_for_status() rejected.
Classify(status) ==
    IF status = 401 THEN Exc("RumiUnauthorizedException", 401)
    ELSE IF status = 404 THEN Exc("RumiNotFoundException", 404)
    ELSE Exc("HTTPStatusError", status)

\* One request of a client operation that ended without a usable body:
\* session.get raised (transport failure) or raise_for_status() did.
HttpFailure(status) ==
    IF status = 0 THEN Exc("TransportError", 0) ELSE Classify(status)

\* A retry on every exception, as @stamina.retry(on=Exception) would give.
Retryable_AnyException(o) == o.k = "exc"

\* A retry on HTTP status errors only, as on=httpx.HTTPStatusError would give.
Retryable_StatusErrorsOnly(o) == o.k = "exc" /\ o.name = "HTTPStatusError"

\* client.py:62, 87, 119: @stamina.retry(on=httpx.HTTPError, ...).  HTTPStatusError
\* and TransportError are httpx.HTTPError; the Rumi exceptions derive from
\* Exception and are not.
Retryable(o) ==
    o.k = "exc" /\ o.name \in {"HTTPStatusError", "TransportError"}

\* stamina: the call is made again while the attempt budget lasts; `att` is
\* the number of attempts that have already failed.
Retries(o, att) == Retryable(o) /\ att + 1 < MaxAttempts

\* client.py:63-84, one execution of the body of get_farms.
get_farms(status, body) ==
    IF status # 200 THEN HttpFailure(status)
    ELSE IF Len(body) > 0 THEN Ret(List(body))
    ELSE Ret(Text(EmptyArrayText))

(***************************************************************************)
(* The handler in progress: action_auth or action_pull_observations.       *)
(***************************************************************************)
MainIdle ==
    [kind |-> "idle", pc |-> "idle", att |-> 0, status |-> 0, fatal |-> FALSE,
     body |-> <<>>, days |-> DefaultLookbackDays, now |-> 0, farms |-> <<>>,
     idx |-> 0, dstate |-> NoValue, start |-> 0, trig |-> <<>>,
     farms_triggered |-> 0, out |-> NoValue]

\* A slot of the scheduler without a work item.  `aborted` is history: the
\* work item that last ran in the slot (its farm and start are kept) ended
\* with the sink raising.
CycFree ==
    [pc |-> "free", farm |-> "farm1", start |-> 0, stop |-> 0, aborted |-> FALSE]

\* No call of transform is under study.
NoCall == [pc |-> "none"]

LookbackChoices == {MinLookbackDays, DefaultLookbackDays, MaxLookbackDays}

Init ==
    /\ now = 0
    /\ main = MainIdle
    /\ cyc = [c \in 1..MaxCycles |-> CycFree]
    /\ cursor = [f \in FarmIds |-> NoValue]
    /\ cache = [f \in FarmIds |-> NoValue]
    /\ call = NoCall

\* Time passes; the state store drops an entry when its expiry is reached.
Tick ==
    /\ now < MaxTime
    /\ now' = now + 1
    /\ cache' = [f \in FarmIds |->
                   IF cache[f].k # "none" /\ cache[f].exp <= now + 1
                   THEN NoValue ELSE cache[f]]
    /\ UNCHANGED <<call, main, cyc, cursor>>

\* The invocations in progress: the auth or pull handler and the cycles.
Running(c) == cyc[c].pc \notin {"free", "queued"}
Busy == (IF main.pc = "idle" THEN 0 ELSE 1)
        + Cardinality({c \in 1..MaxCycles : Running(c)})

\* handlers.py:88-91: the auth action starts.
StartAuth(S) ==
    /\ main.pc = "idle"
    /\ Busy < S.busy
    /\ main' = [MainIdle EXCEPT !.kind = "auth", !.pc = "get_farms"]
    /\ UNCHANGED <<call, now, cyc, cursor, cache>>

\* handlers.py:93-104: what action_auth makes of the outcome of get_farms.
action_auth(o) ==
    IF o.k = "ret" THEN
        IF ~Truthy(o.v)
        THEN Ret([valid_credentials |-> FALSE, message |-> "Bad credentials"])
        ELSE Ret([valid_credentials |-> TRUE])
    ELSE IF o.name = "RumiUnauthorizedException"
    THEN Ret([valid_credentials |-> FALSE, status_code |-> o.status,
              message |-> "Invalid token"])
    ELSE IF o.name = "RumiNotFoundException"
    THEN Ret([valid_credentials |-> FALSE, status_code |-> o.status,
              message |-> "Invalid user_id"])
    ELSE IF o.name = "HTTPStatusError"
    THEN Ret([error |-> TRUE, status_code |-> o.status])
    ELSE o

\* handlers.py:108-112: the pull action starts; get_auth_config raises when the
\* integration has no auth configuration.
StartPull(S) ==
    /\ main.pc = "idle"
    /\ Busy < S.busy
    /\ \E days \in S.days, hasAuth \in BOOLEAN :
         main' = IF hasAuth
                 THEN [MainIdle EXCEPT !.kind = "pull", !.pc = "get_farms",
                                       !.days = days]
                 ELSE [MainIdle EXCEPT !.kind = "pull", !.pc = "done",
                                       !.days = days,
                                       !.out = Exc("ConfigurationNotFound", 0)]
    /\ UNCHANGED <<call, now, cyc, cursor, cache>>

\* handlers.py:114-119 and 144-154: what action_pull_observations does with the
\* outcome of get_farms, up to the first farm of the loop.  Iterating a str
\* yields its characters, and a character has no attribute `id` (line 121).
PullAfterFarms(m, o) ==
    IF o.k = "exc" THEN [m EXCEPT !.pc = "done", !.out = o]
    ELSE IF ~Truthy(o.v)
    THEN [m EXCEPT !.pc = "done", !.out = Ret([farms_triggered |-> 0])]
    ELSE IF o.v.tag = "text"
    THEN [m EXCEPT !.pc = "done", !.now = now, !.out = Exc("AttributeError", 0)]
    ELSE [m EXCEPT !.pc = "get_state", !.now = now, !.farms = o.v.items,
                   !.idx = 1, !.farms_triggered = 0]

\* One HTTP request of get_farms, the retry decision of stamina, and the
\* handler's reaction when the call returns or raises.
GetFarmsStep(S) ==
    /\ main.pc = "get_farms"
    /\ \E status \in S.statuses, body \in S.farm_bodies :
         LET o == get_farms(status, body)
             m == [main EXCEPT !.status = status, !.fatal = status \in {401, 404},
                               !.body = IF status = 200 THEN body ELSE <<>>]
         IN  main' = IF Retries(o, main.att)
                     THEN [m EXCEPT !.att = @ + 1]
                     ELSE IF main.kind = "auth"
                     THEN [m EXCEPT !.pc = "done", !.out = action_auth(o)]
                     ELSE PullAfterFarms(m, o)
    /\ UNCHANGED <<call, now, cyc, cursor, cache>>

\* A window start that never reads the stored cursor.
WindowStart_IgnoresCursor(device_state, t, days) == t - days * UnitsPerDay

\* handlers.py:127-132: the start of the farm's window.
WindowStart(device_state, t, days) ==
    IF device_state.k = "none"
    THEN t - days * UnitsPerDay
    ELSE device_state.updated_at

\* handlers.py:122-132: state_manager.get_state for the farm's cursor (it may
\* raise: the store is a network service) and the choice of `start`.
PullGetState(S) ==
    /\ main.pc = "get_state"
    /\ \E ok \in S.store_ok :
         main' = IF ok
                 THEN [main EXCEPT !.pc = "trigger",
                                   !.dstate = cursor[main.farms[main.idx]],
                                   !.start = WindowStart(cursor[main.farms[main.idx]],
                                                         main.now, main.days)]
                 ELSE [main EXCEPT !.pc = "done", !.out = Exc("StateError", 0)]
    /\ UNCHANGED <<call, now, cyc, cursor, cache>>

\* The scheduler's queue holds as many work items as the scope has slots.
FreeSlots(S) == {c \in 1..S.slots : cyc[c].pc = "free"}
FirstFree(S) == CHOOSE c \in FreeSlots(S) : \A d \in FreeSlots(S) : c <= d

\* configurations.py:36: the default of `stop` is evaluated once, when the
\* module is imported.
ImportTime == 0

\* handlers.py:134-140 and configurations.py:34-41: the configuration of the
\* work item.
PullFarmObservationsConfig(start, farm_id) ==
    [pc |-> "queued", farm |-> farm_id, start |-> start, stop |-> ImportTime]

\* handlers.py:134-143: trigger_action hands the work item to the scheduler
\* (it may raise); after the last farm the handler returns the count.
PullTrigger(S) ==
    /\ main.pc = "trigger"
    /\ FreeSlots(S) # {}
    /\ \E ok \in S.store_ok :
         IF ok
         THEN /\ cyc' = [cyc EXCEPT ![FirstFree(S)] =
                           PullFarmObservationsConfig(main.start, main.farms[main.idx])]
              /\ main' =
                   LET m == [main EXCEPT !.farms_triggered = @ + 1,
                                         !.trig = Append(@, main.farms[main.idx]),
                                         !.idx = @ + 1]
                   IN  IF main.idx < Len(main.farms)
                       THEN [m EXCEPT !.pc = "get_state"]
                       ELSE [m EXCEPT !.pc = "done",
                                      !.out = Ret([farms_triggered |-> m.farms_triggered])]
         ELSE /\ main' = [main EXCEPT !.pc = "done", !.out = Exc("TriggerError", 0)]
              /\ cyc' = cyc
    /\ UNCHANGED <<call, now, cursor, cache>>

\* The handler has returned or raised; the next invocation may start.
MainReturn ==
    /\ main.pc = "done"
    /\ main' = MainIdle
    /\ UNCHANGED <<call, now, cyc, cursor, cache>>

(***************************************************************************)
(* The vendor's observations.  A body is a JSON array written as a         *)
(* sequence of runs: a run stands for n consecutive observations that      *)
(* carry the same `_time`.  `time` is the instant (in UTC) and `off` the   *)
(* UTC offset the vendor wrote it with, so the wall-clock reading of the   *)
(* timestamp is time + off.                                                *)
(***************************************************************************)
ObsTimes == {1, 2}
Offsets == {0, 1}
RunLens == {1, BatchSize}
ObsRuns == [time : ObsTimes, off : Offsets, n : RunLens]

RECURSIVE SeqsUpTo(_, _)
SeqsUpTo(S, n) ==
    IF n = 0 THEN {<<>>}
    ELSE LET shorter == SeqsUpTo(S, n - 1)
         IN  shorter \cup {Append(q, x) : q \in {r \in shorter : Len(r) = n - 1}, x \in S}

ObsBodies == SeqsUpTo(ObsRuns, MaxRuns)

\* len(observations) for a parsed body.
RECURSIVE len_obs(_)
len_obs(body) ==
    IF body = <<>> THEN 0 ELSE body[1].n + len_obs(Tail(body))

\* handlers.py:177, max(observations, key=lambda obs: obs.time): aware
\* datetimes compare by instant, and max keeps the first of equal maxima.
RECURSIVE max_by_time(_)
max_by_time(body) ==
    IF Len(body) = 1 THEN body[1]
    ELSE LET rest == max_by_time(Tail(body))
         IN  IF rest.time > body[1].time THEN rest ELSE body[1]

\* handlers.py:178, latest_time.strftime("%Y-%m-%dT%H:%M:%S.%fZ"): the
\* wall-clock fields of the datetime followed by a literal Z.  client.py:31-35
\* leaves an aware datetime as the vendor wrote it.
strftime(t) == t.time + t.off

\* What the handler keeps of `observations` (the list is not changed after the
\* fetch): its kind, its length and its latest element.
Observations(body) ==
    [tag |-> "list", len |-> len_obs(body),
     latest |-> [time |-> max_by_time(body).time, off |-> max_by_time(body).off]]
\* response.text of an empty array: a str of two characters.
ObservationsText ==
    [tag |-> "text", len |-> Len(EmptyArrayText), latest |-> [time |-> 0, off |-> 0]]
NoObservations == [tag |-> "none", len |-> 0, latest |-> [time |-> 0, off |-> 0]]

\* client.py:88-116, one execution of the body of get_farm_observations once
\* the request has been sent.
get_farm_observations(status, body) ==
    IF status # 200 THEN HttpFailure(status)
    ELSE IF Len(body) > 0 THEN Ret(Observations(body))
    ELSE Ret(ObservationsText)

\* services.utils.generate_batches(transformed_data, 200): the number of
\* batches and the size of batch k.
NumBatches(n) == (n + BatchSize - 1) \div BatchSize
BatchLen(n, k) == IF k * BatchSize <= n THEN BatchSize ELSE n - (k - 1) * BatchSize

Categories == <<"bull", "cow", "calf">>

(***************************************************************************)
(* A fetch_farm_observations work item and the cycle that runs it.  Beside *)
(* the handler's locals the record keeps a history of the invocation:      *)
(* status and fatal (the last HTTP status; whether it was 401 or 404),     *)
(* roster_fetch (client.get_animals_info was called), sent (batches the    *)
(* sink accepted), sink_raised, wrote (the cursor was set) and pre (the    *)
(* farm's cursor when the cycle started).  batches lists the sink calls     *)
(* that returned: the position of the batch's first record in              *)
(* transformed_data, its size, and the number of ids the sink returned.    *)
(***************************************************************************)
CycRun(c) ==
    [pc |-> "fetch", farm |-> c.farm, start |-> c.start, stop |-> c.stop,
     att |-> 0, status |-> 0, fatal |-> FALSE, obs |-> NoObservations,
     cat |-> 1, animals |-> {}, roster_fetch |-> FALSE,
     sent |-> 0, observations_extracted |-> 0, wrote |-> FALSE,
     sink_raised |-> FALSE, pre |-> cursor[c.farm], batches |-> <<>>,
     out |-> NoValue]

\* handlers.py:158-162: the scheduler runs a queued work item.
CycStart(c, S) ==
    /\ cyc[c].pc = "queued"
    /\ Busy < S.busy
    /\ cyc' = [cyc EXCEPT ![c] = CycRun(cyc[c])]
    /\ UNCHANGED <<call, now, main, cursor, cache>>

\* client.py:91-93: config.start.isoformat() and config.stop.isoformat().
\* configurations.py:35-36 declare both fields as str, and a str has no
\* isoformat: with such a configuration the call raises AttributeError before
\* any request is sent.  The object the handler receives is built by the action
\* runner, which is not part of these sources; both cases are kept.
FetchAttributeError(c) ==
    /\ cyc[c].pc = "fetch"
    /\ cyc[c].att = 0
    /\ cyc' = [cyc EXCEPT ![c].pc = "done", ![c].out = Exc("AttributeError", 0)]
    /\ UNCHANGED <<call, now, main, cursor, cache>>

\* A handler that swallows the client's exception and reports an empty cycle.
FetchAfterObs_Swallows(r, o) ==
    IF o.k = "exc" \/ o.v.len = 0
    THEN [r EXCEPT !.pc = "done", !.out = Ret([observations_extracted |-> 0])]
    ELSE [r EXCEPT !.pc = "get_cache", !.obs = o.v, !.att = 0]

\* handlers.py:164-167 and 188-198: what the handler does with the outcome of
\* get_farm_observations.
FetchAfterObs(r, o) ==
    IF o.k = "exc" THEN [r EXCEPT !.pc = "done", !.out = o]
    ELSE IF o.v.len = 0
    THEN [r EXCEPT !.pc = "done", !.obs = o.v,
                   !.out = Ret([observations_extracted |-> 0])]
    ELSE [r EXCEPT !.pc = "get_cache", !.obs = o.v, !.att = 0]

\* One request of get_farm_observations, the retry decision, and the handler's
\* reaction when the call returns or raises.
FetchStep(c, S) ==
    /\ cyc[c].pc = "fetch"
    /\ \E status \in S.statuses, body \in S.obs_bodies :
         LET o == get_farm_observations(status, body)
             r == [cyc[c] EXCEPT !.status = status, !.fatal = status \in {401, 404}]
         IN  cyc' = [cyc EXCEPT ![c] =
                       IF Retries(o, cyc[c].att)
                       THEN [r EXCEPT !.att = @ + 1]
                       ELSE FetchAfterObs(r, o)]
    /\ UNCHANGED <<call, now, main, cursor, cache>>

\* The state store's reading of the enrichment cache entry of a farm: the
\* entry is gone once its expiry has passed.
CacheGet(f) ==
    IF cache[f].k = "none" \/ cache[f].exp <= now THEN NoValue ELSE cache[f]

\* handlers.py:169 with transform (21-59): a character of response.text has no
\* attribute device_name, so transforming it raises AttributeError.
AfterAnimalsInfo(r) ==
    IF r.obs.tag = "text"
    THEN [r EXCEPT !.pc = "done", !.out = Exc("AttributeError", 0)]
    ELSE [r EXCEPT !.pc = "send"]

\* handlers.py:62-69 and 82: get_animals_info reads the cache; a non-empty
\* cached dict is returned as it is.
GetCache(c, S) ==
    /\ cyc[c].pc = "get_cache"
    /\ \E ok \in S.store_ok :
         LET r == cyc[c]
             animals_info == CacheGet(r.farm)
         IN  cyc' = [cyc EXCEPT ![c] =
                       IF ~ok
                       THEN [r EXCEPT !.pc = "done", !.out = Exc("StateError", 0)]
                       ELSE IF animals_info.k # "none" /\ animals_info.val # {}
                       THEN AfterAnimalsInfo([r EXCEPT !.animals = animals_info.val])
                       ELSE [r EXCEPT !.pc = "roster", !.cat = 1, !.animals = {},
                                      !.att = 0, !.fatal = FALSE]]
    /\ UNCHANGED <<call, now, main, cursor, cache>>

\* A roster fetch that hands what it has to the caller when a request fails.
RosterStep_ReturnsPartial(c, S) ==
    /\ cyc[c].pc = "roster"
    /\ \E status \in S.statuses, nonempty \in S.roster_bodies :
         LET r == [cyc[c] EXCEPT !.roster_fetch = TRUE, !.status = status,
                                 !.fatal = status \in {401, 404}]
             o == HttpFailure(status)
         IN  cyc' = [cyc EXCEPT ![c] =
                       IF status # 200
                       THEN IF Retries(o, cyc[c].att)
                            THEN [r EXCEPT !.att = @ + 1, !.cat = 1, !.animals = {}]
                            ELSE [r EXCEPT !.pc = "set_cache"]
                       ELSE LET a == IF nonempty
                                     THEN r.animals \cup {Categories[r.cat]}
                                     ELSE r.animals
                            IN  IF r.cat < Len(Categories)
                                THEN [r EXCEPT !.cat = @ + 1, !.animals = a]
                                ELSE [r EXCEPT !.pc = "set_cache", !.animals = a]]
    /\ UNCHANGED <<call, now, main, cursor, cache>>

\* client.py:119-170, one request of get_animals_info (bulls, cows, calves in
\* turn).  A failed request ends this execution of the function; a retry
\* starts it again with an empty animals_dict.
RosterStep(c, S) ==
    /\ cyc[c].pc = "roster"
    /\ \E status \in S.statuses, nonempty \in S.roster_bodies :
         LET r == [cyc[c] EXCEPT !.roster_fetch = TRUE, !.status = status,
                                 !.fatal = status \in {401, 404}]
             o == HttpFailure(status)
         IN  cyc' = [cyc EXCEPT ![c] =
                       IF status # 200
                       THEN IF Retries(o, cyc[c].att)
                            THEN [r EXCEPT !.att = @ + 1, !.cat = 1, !.animals = {}]
                            ELSE [r EXCEPT !.pc = "done", !.out = o]
                       ELSE LET a == IF nonempty
                                     THEN r.animals \cup {Categories[r.cat]}
                                     ELSE r.animals
                            IN  IF r.cat < Len(Categories)
                                THEN [r EXCEPT !.cat = @ + 1, !.animals = a]
                                ELSE [r EXCEPT !.pc = "set_cache", !.animals = a]]
    /\ UNCHANGED <<call, now, main, cursor, cache>>

\* handlers.py:72-80: the fetched roster is stored for 12 hours.
SetCache(c, S) ==
    /\ cyc[c].pc = "set_cache"
    /\ \E ok \in S.store_ok :
         IF ok
         THEN /\ cache' = [cache EXCEPT ![cyc[c].farm] =
                             [k |-> "dict", val |-> cyc[c].animals, exp |-> now + Expire]]
              /\ cyc' = [cyc EXCEPT ![c] = AfterAnimalsInfo(@)]
         ELSE /\ cache' = cache
              /\ cyc' = [cyc EXCEPT ![c].pc = "done", ![c].out = Exc("StateError", 0)]
    /\ UNCHANGED <<call, now, main, cursor>>

\* The lengths of the list the sink may return for a batch.
Accepted(size) == {0, size}

\* services.utils.generate_batches: the position of the first record of batch k.
BatchFrom(k) == (k - 1) * BatchSize + 1

\* A dispatch loop that counts the records sent, not the ids the sink returned.
SendStep_CountsSent(c) ==
    /\ cyc[c].pc = "send"
    /\ \E ok \in BOOLEAN :
         IF ok
         THEN \E a \in Accepted(BatchLen(cyc[c].obs.len, cyc[c].sent + 1)) :
                cyc' = [cyc EXCEPT ![c] =
                          LET size == BatchLen(@.obs.len, @.sent + 1)
                              r == [@ EXCEPT !.sent = @ + 1,
                                             !.observations_extracted = @ + size,
                                             !.batches = Append(@,
                                                [from |-> BatchFrom(cyc[c].sent + 1),
                                                 size |-> size, accepted |-> a])]
                          IN  IF r.sent = NumBatches(r.obs.len)
                              THEN [r EXCEPT !.pc = "set_cursor"]
                              ELSE r]
         ELSE cyc' = [cyc EXCEPT ![c].pc = "done", ![c].sink_raised = TRUE,
                                 ![c].out = Exc("SinkError", 0)]
    /\ UNCHANGED <<call, now, main, cursor, cache>>

\* A dispatch loop that sets the cursor after every batch.
SendStep_CursorPerBatch(c) ==
    /\ cyc[c].pc = "send"
    /\ \E ok \in BOOLEAN :
         IF ok
         THEN /\ cyc' = [cyc EXCEPT ![c] =
                          LET r == [@ EXCEPT !.sent = @ + 1, !.wrote = TRUE]
                          IN  IF r.sent = NumBatches(r.obs.len)
                              THEN [r EXCEPT !.pc = "set_cursor"]
                              ELSE r]
              /\ cursor' = [cursor EXCEPT ![cyc[c].farm] =
                              [k |-> "dict", updated_at |-> strftime(cyc[c].obs.latest)]]
         ELSE /\ cyc' = [cyc EXCEPT ![c].pc = "done", ![c].sink_raised = TRUE,
                                    ![c].out = Exc("SinkError", 0)]
              /\ cursor' = cursor
    /\ UNCHANGED <<call, now, main, cache>>

\* handlers.py:171-174: batch number sent + 1 goes to the sink, which returns
\* the accepted ids or raises.
SendStep(c) ==
    /\ cyc[c].pc = "send"
    /\ \E ok \in BOOLEAN :
         IF ok
         THEN \E a \in Accepted(BatchLen(cyc[c].obs.len, cyc[c].sent + 1)) :
                cyc' = [cyc EXCEPT ![c] =
                          LET r == [@ EXCEPT !.sent = @ + 1,
                                             !.observations_extracted = @ + a,
                                             !.batches = Append(@,
                                                [from |-> BatchFrom(cyc[c].sent + 1),
                                                 size |-> BatchLen(cyc[c].obs.len,
                                                                   cyc[c].sent + 1),
                                                 accepted |-> a])]
                          IN  IF r.sent = NumBatches(r.obs.len)
                              THEN [r EXCEPT !.pc = "set_cursor"]
                              ELSE r]
         ELSE cyc' = [cyc EXCEPT ![c].pc = "done", ![c].sink_raised = TRUE,
                                 ![c].out = Exc("SinkError", 0)]
    /\ UNCHANGED <<call, now, main, cursor, cache>>

\* A cursor write that is not keyed by the farm.
SetCursor_EveryFarm(c, S) ==
    /\ cyc[c].pc = "set_cursor"
    /\ cursor' = [f \in FarmIds |->
                    [k |-> "dict", updated_at |-> strftime(cyc[c].obs.latest)]]
    /\ cyc' = [cyc EXCEPT ![c].pc = "done", ![c].wrote = TRUE,
                 ![c].out = Ret([observations_extracted |->
                                   cyc[c].observations_extracted])]
    /\ UNCHANGED <<call, now, main, cache>>

\* handlers.py:176-187: the cursor is set to the latest observation time and
\* the count is returned.
SetCursor(c, S) ==
    /\ cyc[c].pc = "set_cursor"
    /\ \E ok \in S.store_ok :
         IF ok
         THEN /\ cursor' = [cursor EXCEPT ![cyc[c].farm] =
                              [k |-> "dict", updated_at |-> strftime(cyc[c].obs.latest)]]
              /\ cyc' = [cyc EXCEPT ![c].pc = "done", ![c].wrote = TRUE,
                           ![c].out = Ret([observations_extracted |->
                                             cyc[c].observations_extracted])]
         ELSE /\ cursor' = cursor
              /\ cyc' = [cyc EXCEPT ![c].pc = "done", ![c].out = Exc("StateError", 0)]
    /\ UNCHANGED <<call, now, main, cache>>

\* The cycle has returned or raised; its slot is free again.
CycReturn(c, S) ==
    /\ cyc[c].pc = "done"
    /\ cyc' = [cyc EXCEPT ![c] =
                 IF S.history /\ cyc[c].sink_raised
                 THEN [CycFree EXCEPT !.farm = cyc[c].farm, !.start = cyc[c].start,
                                      !.aborted = TRUE]
                 ELSE CycFree]
    /\ UNCHANGED <<call, now, main, cursor, cache>>

Cycle(c, S) ==
    \/ CycStart(c, S)
    \/ FetchAttributeError(c)
    \/ FetchStep(c, S)
    \/ GetCache(c, S)
    \/ RosterStep(c, S)
    \/ SetCache(c, S)
    \/ SendStep(c)
    \/ SetCursor(c, S)
    \/ CycReturn(c, S)

(***************************************************************************)
(* Scopes: what the scheduler lets overlap and the inputs that are drawn.  *)
(*   busy          invocations (handlers and cycles) in progress at once   *)
(*   slots         work items the scheduler holds                          *)
(*   days          configured default_lookback_days                        *)
(*   statuses      HTTP outcomes of a vendor request                       *)
(*   farm_bodies   farm lists the vendor sends                             *)
(*   obs_bodies    observation lists the vendor sends                      *)
(*   roster_bodies whether a roster category comes back non-empty          *)
(*   store_ok      whether a state store or scheduler call succeeds        *)
(*   history       whether a free slot keeps the aborted work item         *)
(* Sequential: one farm, one invocation at a time, every input.            *)
(* Fanout: two farms and a slot for each, one invocation at a time, at     *)
(* most one observation per body.                                          *)
(* Concurrent: two farms and a slot for each, overlapping invocations,     *)
(* every vendor request answered with 200.                                 *)
(***************************************************************************)
SmallObsBodies ==
    {<<>>} \cup {<<[time |-> t, off |-> 0, n |-> 1]>> : t \in ObsTimes}

Sequential ==
    [busy |-> 1, slots |-> 1, days |-> LookbackChoices, statuses |-> Statuses,
     farm_bodies |-> {<<>>, <<"farm1">>}, obs_bodies |-> ObsBodies,
     roster_bodies |-> BOOLEAN, store_ok |-> BOOLEAN, history |-> TRUE]

Fanout ==
    [busy |-> 1, slots |-> Cardinality(FarmIds), days |-> LookbackChoices,
     statuses |-> {200, 401, 503}, farm_bodies |-> FarmBodies,
     obs_bodies |-> {<<>>, <<[time |-> 1, off |-> 0, n |-> 1]>>},
     roster_bodies |-> {TRUE},
     store_ok |-> BOOLEAN, history |-> FALSE]

Concurrent ==
    [busy |-> MaxBusy, slots |-> Cardinality(FarmIds),
     days |-> {DefaultLookbackDays}, statuses |-> {200},
     farm_bodies |-> {<<"farm1", "farm2">>},
     obs_bodies |-> {<<[time |-> 1, off |-> 0, n |-> 1]>>},
     roster_bodies |-> {TRUE}, store_ok |-> {TRUE}, history |-> FALSE]

Next(S) ==
    \/ Tick
    \/ StartAuth(S)
    \/ StartPull(S)
    \/ GetFarmsStep(S)
    \/ PullGetState(S)
    \/ PullTrigger(S)
    \/ MainReturn
    \/ \E c \in 1..MaxCycles : Cycle(c, S)

Spec == Init /\ [][Next(Sequential)]_vars

SpecFanout == Init /\ [][Next(Fanout)]_vars

SpecConcurrent == Init /\ [][Next(Concurrent)]_vars

(***************************************************************************)
(* transform (handlers.py:21-59) on its own.  A roster animal is a JSON     *)
(* object: a field holds a value, JSON null, or is not there at all.       *)
(* animals_info is written as the sequence of its animals in the order     *)
(* animals_info.items() and the category lists yield them, each with the   *)
(* category it is listed under.                                            *)
(***************************************************************************)
Absent == "<absent>"
Null == "<null>"

\* Python truth value of a field's value.
TruthyValue(v) == v \notin {Absent, Null, ""}

AnimalRecords ==
    [rumi_id : {Absent, "d1"}, name : {Absent, Null, "Bella"},
     type : {Absent, "Limousin"}, farm_id : {Absent, "farm9"},
     farm_name : {Absent, "Farm 9"}]

RosterCategories == {1, 2}

RosterEntries == [cat : RosterCategories, animal : AnimalRecords]

\* client.py:136-162: bulls are listed before cows before calves.
Rosters(n) ==
    {r \in SeqsUpTo(RosterEntries, n) :
        \A i \in 1..(Len(r) - 1) : r[i].cat <= r[i + 1].cat}

FarmLocations == [device_name : {"d1", "d2"}, official_tag : {"tag1"}]

\* handlers.py:21-59.  The comprehension of lines 22-26 reads animal["rumi_id"]
\* of every animal (KeyError when the key is not there) and lets a later animal
\* replace an earlier one with the same rumi_id; {"type": animal_type, **animal}
\* keeps the animal's own "type" when it has one.  A text is written as the
\* tuple of its parts.
transform(farm, animals_info, observation) ==
    IF \E i \in 1..Len(animals_info) : animals_info[i].animal.rumi_id = Absent
    THEN Exc("KeyError", 0)
    ELSE
      LET hits == {i \in 1..Len(animals_info) :
                     animals_info[i].animal.rumi_id = observation.device_name}
      IN  IF hits = {}
          THEN LET source_name == <<observation.official_tag, observation.device_name>>
               IN  Ret([source_name |-> source_name,
                        source |-> observation.official_tag,
                        subject_type |-> [kind |-> "unassigned"],
                        additional |-> [farm_id |-> farm,
                                        farm_name |-> FarmName(farm),
                                        subject_name |-> source_name]])
          ELSE LET last == CHOOSE i \in hits : \A j \in hits : j <= i
                   animal == animals_info[last].animal
                   type == IF animal.type = Absent
                           THEN Categories[animals_info[last].cat]
                           ELSE animal.type
                   source_name ==
                       <<IF animal.name = Absent THEN observation.official_tag
                         ELSE IF animal.name = Null THEN "None"
                         ELSE animal.name,
                         animal.rumi_id>>
               IN  Ret([source_name |-> source_name,
                        source |-> observation.official_tag,
                        subject_type |-> [kind |-> "rumi", of |-> type],
                        additional |->
                          [farm_id |-> IF TruthyValue(animal.farm_id)
                                       THEN animal.farm_id ELSE farm,
                           farm_name |-> IF TruthyValue(animal.farm_name)
                                         THEN animal.farm_name ELSE FarmName(farm),
                           subject_name |-> source_name]])

\* A call of transform with any farm, roster and observation.
InitTransform ==
    /\ now = 0
    /\ main = MainIdle
    /\ cyc = [c \in 1..MaxCycles |-> CycFree]
    /\ cursor = [f \in FarmIds |-> NoValue]
    /\ cache = [f \in FarmIds |-> NoValue]
    /\ call \in [pc : {"call"}, farm : FarmIds, animals_info : Rosters(MaxAnimals),
                 observation : FarmLocations, out : {NoValue}]

\* handlers.py:169: transform(action_config, animals_info, ob).
TransformStep ==
    /\ call.pc = "call"
    /\ call' = [call EXCEPT !.pc = "done",
                  !.out = transform(call.farm, call.animals_info, call.observation)]
    /\ UNCHANGED <<now, main, cyc, cursor, cache>>

NextTransform == TransformStep

SpecTransform == InitTransform /\ [][NextTransform]_vars

(***************************************************************************)
(* Properties.                                                             *)
(***************************************************************************)
Cycles == 1..MaxCycles

\* C1: a cycle sets the farm's cursor only after every batch has been sent
\* without the sink raising; until it does, and for good when a send raises,
\* the stored cursor keeps the value it had when the cycle started.
C1_CursorOnlyAfterAllBatches ==
    \A c \in Cycles : Running(c) =>
        /\ cyc[c].wrote =>
             cyc[c].sent = NumBatches(cyc[c].obs.len) /\ ~cyc[c].sink_raised
        /\ ~cyc[c].wrote => cursor[cyc[c].farm] = cyc[c].pre

\* A send raised after an earlier batch of the same cycle was delivered.
C1_Witness ==
    \E c \in Cycles :
        cyc[c].pc = "done" /\ cyc[c].sink_raised /\ cyc[c].sent >= 1
        /\ cursor[cyc[c].farm] = cyc[c].pre

\* C2: the stored cursor of a farm never decreases.
C2_CursorNeverDecreases ==
    [][\A f \in FarmIds :
         (cursor[f].k = "dict" /\ cursor'[f].k = "dict")
             => cursor'[f].updated_at >= cursor[f].updated_at]_vars

\* C3: a cycle whose observation fetch succeeded with zero results fetches no
\* roster, sends nothing, leaves the cursor alone and, unless the state store
\* failed, ends with {"observations_extracted": 0}.
C3_EmptyFetchEndsWithZero ==
    \A c \in Cycles : (Running(c) /\ cyc[c].obs.tag = "text") =>
        /\ ~cyc[c].roster_fetch
        /\ cyc[c].sent = 0
        /\ ~cyc[c].wrote
        /\ (cyc[c].pc = "done" /\ ~(cyc[c].out.k = "exc" /\ cyc[c].out.name = "StateError"))
             => cyc[c].out = Ret([observations_extracted |-> 0])

\* C4: auth returns {"valid_credentials": true} exactly when the farms request
\* succeeded with at least one farm, and "Bad credentials" when it succeeded
\* with an empty list.
C4_AuthValidIffFarms ==
    (main.kind = "auth" /\ main.pc = "done") =>
        /\ main.out = Ret([valid_credentials |-> TRUE])
             <=> (main.status = 200 /\ Len(main.body) >= 1)
        /\ (main.status = 200 /\ Len(main.body) = 0)
             => main.out = Ret([valid_credentials |-> FALSE,
                                message |-> "Bad credentials"])

\* C5: auth returns a result for every HTTP status failure: 401 and 404 give
\* their fixed results and any other status is echoed with "error": true.
C5_AuthClassifiedFailures ==
    (main.kind = "auth" /\ main.pc = "done") =>
        /\ main.status = 401 =>
             main.out = Ret([valid_credentials |-> FALSE, status_code |-> 401,
                             message |-> "Invalid token"])
        /\ main.status = 404 =>
             main.out = Ret([valid_credentials |-> FALSE, status_code |-> 404,
                             message |-> "Invalid user_id"])
        /\ main.status \in Statuses \ {0, 200, 401, 404} =>
             main.out = Ret([error |-> TRUE, status_code |-> main.status])

\* Auth ended on a 503 after the retries were used up.
C5_Witness ==
    main.kind = "auth" /\ main.pc = "done" /\ main.status = 503
    /\ main.att = MaxAttempts - 1

\* C6: when the vendor returned n >= 0 farms and no collaborator failed, pull
\* has triggered one work item per farm in list order and returns
\* {"farms_triggered": n}.
C6_OneWorkItemPerFarm ==
    (/\ main.kind = "pull" /\ main.pc = "done" /\ main.status = 200
     /\ ~(main.out.k = "exc" /\ main.out.name \in {"StateError", "TriggerError"}))
        => /\ main.trig = main.body
           /\ main.out = Ret([farms_triggered |-> Len(main.body)])

\* C7: a triggered work item is for the farm of the loop and starts at the
\* stored cursor of that farm, or, when none is stored, at the time the pull
\* took as `now` minus the configured lookback days.
C7_WindowStart ==
    [][\A c \in Cycles :
         (cyc[c].pc = "free" /\ cyc'[c].pc = "queued") =>
             LET f == main.farms[main.idx]
             IN  /\ cyc'[c].farm = f
                 /\ cyc'[c].start =
                      IF cursor[f].k = "none"
                      THEN main.now - main.days * UnitsPerDay
                      ELSE cursor[f].updated_at]_vars

\* A work item queued with the stored cursor of its farm as start.
C7_Witness ==
    \E c \in Cycles :
        /\ cyc[c].pc = "queued"
        /\ cursor[cyc[c].farm].k = "dict"
        /\ cyc[c].start = cursor[cyc[c].farm].updated_at

\* C8: the cursor a cycle writes is the maximum timestamp among the
\* observations it fetched.
C8_CursorIsMaxTimestamp ==
    \A c \in Cycles : (Running(c) /\ cyc[c].wrote) =>
        cursor[cyc[c].farm].updated_at = cyc[c].obs.latest.time

\* C9: when a vendor call raised Unauthorized or NotFound the handler ends by
\* raising that error; a cycle has sent nothing and left the cursor alone, a
\* pull has triggered nothing.
C9_FatalVendorErrorAborts ==
    /\ \A c \in Cycles : (cyc[c].pc = "done" /\ cyc[c].fatal) =>
          /\ cyc[c].out = Classify(cyc[c].status)
          /\ cyc[c].sent = 0
          /\ ~cyc[c].wrote
          /\ cursor[cyc[c].farm] = cyc[c].pre
    /\ (main.kind = "pull" /\ main.pc = "done" /\ main.fatal) =>
          /\ main.out = Classify(main.status)
          /\ main.trig = <<>>
          /\ main.farms_triggered = 0

\* A cycle with observations in hand ended by a 401 or 404 of the roster.
C9_Witness ==
    \E c \in Cycles :
        cyc[c].pc = "done" /\ cyc[c].fatal /\ cyc[c].roster_fetch
        /\ cyc[c].obs.tag = "list"

\* C10: a 401 or 404 response ends the client operation at once, with
\* Unauthorized for 401 and NotFound for 404: no state has an operation still
\* in progress after such a response.
C10_FatalStatusNotRetried ==
    LET raised(status) == IF status = 401 THEN "RumiUnauthorizedException"
                          ELSE "RumiNotFoundException"
    IN  /\ \A c \in Cycles : (Running(c) /\ cyc[c].fatal) =>
              /\ cyc[c].pc = "done"
              /\ cyc[c].out.k = "exc"
              /\ cyc[c].out.name = raised(cyc[c].status)
        /\ main.fatal =>
              /\ main.pc = "done"
              /\ main.kind = "pull" =>
                   (main.out.k = "exc" /\ main.out.name = raised(main.status))
              /\ main.kind = "auth" =>
                   main.out.v.message = IF main.status = 401 THEN "Invalid token"
                                        ELSE "Invalid user_id"

\* The roster's second request (cows) got a 401 or 404 and no third followed.
C10_Witness ==
    \E c \in Cycles :
        cyc[c].pc = "done" /\ cyc[c].fatal /\ cyc[c].roster_fetch
        /\ cyc[c].cat = 2

\* C11: a client operation makes at most MaxAttempts attempts; an HTTP status
\* error other than 401/404 or a transport failure ends the call only when the
\* attempts are used up, and then the handler raises that same error with
\* nothing sent and the cursor as it was before the cycle.
C11_RetryBounded ==
    LET retried(o) == o.k = "exc" /\ o.name \in {"HTTPStatusError", "TransportError"}
    IN  /\ \A c \in Cycles : Running(c) =>
              /\ cyc[c].att < MaxAttempts
              /\ (cyc[c].pc = "done" /\ retried(cyc[c].out)) =>
                    /\ cyc[c].att = MaxAttempts - 1
                    /\ cyc[c].out = HttpFailure(cyc[c].status)
                    /\ cyc[c].sent = 0
                    /\ ~cyc[c].wrote
                    /\ cursor[cyc[c].farm] = cyc[c].pre
        /\ main.att < MaxAttempts
        /\ (main.kind = "pull" /\ main.pc = "done" /\ retried(main.out)) =>
              /\ main.att = MaxAttempts - 1
              /\ main.out = HttpFailure(main.status)
              /\ main.trig = <<>>

\* A cycle of a farm with a stored cursor gave up on transport failures.
C11_Witness ==
    \E c \in Cycles :
        /\ cyc[c].pc = "done" /\ cyc[c].out = Exc("TransportError", 0)
        /\ cyc[c].att = MaxAttempts - 1
        /\ cyc[c].pre.k = "dict"

\* C12: a non-empty cycle turns to the vendor for the roster only when the
\* store holds no unexpired roster entry for its farm: within the 12 hours
\* after a roster was cached, whatever its content, no second roster fetch is
\* issued.
C12_OneRosterFetchWithinTTL ==
    [][\A c \in Cycles :
         (cyc[c].pc = "get_cache" /\ cyc[c].obs.tag = "list" /\ cyc'[c].pc = "roster")
             => CacheGet(cyc[c].farm).k = "none"]_vars

\* handlers.py:174: the total of len(response) over the sink calls made.
RECURSIVE SumAccepted(_)
SumAccepted(b) == IF b = <<>> THEN 0 ELSE b[1].accepted + SumAccepted(Tail(b))

\* C13: the sink calls of a cycle carry consecutive slices of at most 200
\* records, in list order; once the loop is over there were ceil(M/200) of
\* them covering all M records, and the cycle returns the sum of the numbers
\* of ids the sink returned.
C13_Batching ==
    \A c \in Cycles : (Running(c) /\ cyc[c].obs.tag = "list") =>
        LET b == cyc[c].batches
            M == cyc[c].obs.len
        IN  /\ \A k \in 1..Len(b) :
                  /\ b[k].size \in 1..200
                  /\ b[k].from = IF k = 1 THEN 1 ELSE b[k - 1].from + b[k - 1].size
            /\ cyc[c].observations_extracted = SumAccepted(b)
            /\ (cyc[c].pc = "set_cursor" \/ cyc[c].wrote) =>
                  /\ 200 * (Len(b) - 1) < M
                  /\ M <= 200 * Len(b)
                  /\ b[Len(b)].from + b[Len(b)].size = M + 1
            /\ cyc[c].wrote =>
                  cyc[c].out = Ret([observations_extracted |-> SumAccepted(b)])

\* A cycle of 201 records returned 1: the sink took nothing of the first batch.
C13_Witness ==
    \E c \in Cycles :
        /\ cyc[c].pc = "done" /\ cyc[c].wrote
        /\ Len(cyc[c].batches) = 2
        /\ cyc[c].batches[2].size = 1
        /\ cyc[c].batches[1].accepted = 0
        /\ cyc[c].out = Ret([observations_extracted |-> 1])

\* C14: after a cycle of a farm was aborted by the sink, the next work item
\* triggered for that farm has the window start of the aborted cycle (the
\* configured lookback being the one the aborted item's start was taken with,
\* when that start was a lookback start).
C14_ResumesSameWindow ==
    [][\A c \in Cycles :
         (/\ cyc[c].pc = "free" /\ cyc[c].aborted
          /\ cyc'[c].pc = "queued" /\ cyc'[c].farm = cyc[c].farm
          /\ \/ cursor[cyc[c].farm].k = "dict"
             \/ \E t \in 0..main.now :
                   cyc[c].start = t - main.days * UnitsPerDay)
             => cyc'[c].start = cyc[c].start]_vars

\* C15: when reading the cursor of a farm or triggering its work item failed,
\* every other farm of the list the pull obtained has had its work item
\* triggered by the time the pull ends.
C15_FarmIndependence ==
    (/\ main.kind = "pull" /\ main.pc = "done"
     /\ main.out.k = "exc" /\ main.out.name \in {"StateError", "TriggerError"})
        => \A i \in 1..Len(main.farms) :
              i # main.idx => \E j \in 1..Len(main.trig) : main.trig[j] = main.farms[i]

\* C16: transform returns a record for every roster and observation; when the
\* device id is the rumi id of a roster animal the record has the category of
\* such an animal as subject type and "<its name, or the tag> (<rumi id>)" as
\* source name, otherwise "unassigned" and "<tag> (<device id>)".
C16_TransformClassification ==
    call.pc = "done" =>
        LET ob == call.observation
            matches == {i \in 1..Len(call.animals_info) :
                          call.animals_info[i].animal.rumi_id = ob.device_name}
        IN  /\ call.out.k = "ret"
            /\ IF matches = {}
               THEN /\ call.out.v.subject_type = [kind |-> "unassigned"]
                    /\ call.out.v.source_name = <<ob.official_tag, ob.device_name>>
               ELSE \E i \in matches :
                      LET e == call.animals_info[i]
                      IN  /\ call.out.v.subject_type =
                                [kind |-> "rumi", of |-> Categories[e.cat]]
                          /\ call.out.v.source_name =
                                <<IF e.animal.name \in {Absent, Null}
                                  THEN ob.official_tag ELSE e.animal.name,
                                  e.animal.rumi_id>>

\* C17: every record transform returns carries the id and the name of the
\* farm being synced as farm_id and farm_name of its additional attributes.
C17_AdditionalCarriesFarm ==
    (call.pc = "done" /\ call.out.k = "ret") =>
        /\ call.out.v.additional.farm_id = call.farm
        /\ call.out.v.additional.farm_name = FarmName(call.farm)

\* C18: the window of every triggered work item ends at the time the pull
\* that triggered it took as `now`, and does not start after it ends.
C18_WindowEndIsNow ==
    [][\A c \in Cycles :
         (cyc[c].pc = "free" /\ cyc'[c].pc = "queued") =>
             /\ cyc'[c].stop = main.now
             /\ cyc'[c].start <= cyc'[c].stop]_vars

\* C19: a roster fetch in progress holds only categories its current execution
\* obtained (a retry starts from nothing); a failed roster fetch ends the cycle
\* with that failure and leaves the cache alone; an entry is written to a
\* farm's cache only by a fetch whose three requests all succeeded, with the
\* roster that fetch built.
C19_NoPartialCaching ==
    [][/\ \A c \in Cycles :
            cyc'[c].pc = "roster" =>
                cyc'[c].animals \subseteq {Categories[k] : k \in 1..(cyc'[c].cat - 1)}
       /\ \A c \in Cycles :
            (cyc[c].pc = "roster" /\ cyc'[c].pc = "done") =>
                /\ cache' = cache
                /\ cyc'[c].out = HttpFailure(cyc'[c].status)
       /\ \A f \in FarmIds :
            (cache'[f] # cache[f] /\ cache'[f] # NoValue) =>
                \E c \in Cycles :
                    /\ cyc[c].pc = "set_cache" /\ cyc[c].farm = f
                    /\ cyc[c].status = 200 /\ cyc[c].cat = Len(Categories)
                    /\ cache'[f].val = cyc[c].animals]_vars

\* The third request of a roster fetch failed with two categories in hand,
\* and the farm has no cache entry.
C19_Witness ==
    \E c \in Cycles :
        /\ cyc[c].pc = "done" /\ cyc[c].roster_fetch /\ cyc[c].out.k = "exc"
        /\ cyc[c].cat = 3 /\ cyc[c].animals = {"bull", "cow"}
        /\ cache[cyc[c].farm].k = "none"

\* C20: the cursor of a farm changes only in a step in which a cycle of that
\* farm sets it, and the cache entry of a farm changes only when it expires or
\* in a step in which a cycle of that farm stores its roster: no step of a
\* cycle of another farm touches them, however the cycles interleave.
C20_PerFarmIsolation ==
    [][\A f \in FarmIds :
         /\ cursor'[f] # cursor[f] =>
               \E c \in Cycles :
                   /\ cyc[c].pc = "set_cursor" /\ cyc[c].farm = f
                   /\ cyc'[c].pc = "done"
         /\ cache'[f] # cache[f] =>
               \/ now' # now /\ cache'[f] = NoValue
               \/ \E c \in Cycles :
                     /\ cyc[c].pc = "set_cache" /\ cyc[c].farm = f
                     /\ cyc'[c] # cyc[c]]_vars

\* Two cycles of different farms under way at once: one has set its farm's
\* cursor and cache, the other is fetching its roster and its farm has neither.
C20_Witness ==
    \E c, d \in Cycles :
        /\ cyc[c].pc = "done" /\ cyc[c].wrote
        /\ cache[cyc[c].farm].k = "dict"
        /\ cyc[d].pc = "roster" /\ cyc[d].farm # cyc[c].farm
        /\ cursor[cyc[d].farm].k = "none" /\ cache[cyc[d].farm].k = "none"

\* C21: no two work items of one farm that were both triggered from the
\* cursor the store holds for the farm are in flight (queued or running) at
\* the same time.
C21_OneCyclePerFarmCursor ==
    \A c, d \in Cycles :
        (/\ c # d
         /\ cyc[c].pc \notin {"free", "done"} /\ cyc[d].pc \notin {"free", "done"}
         /\ cyc[c].farm = cyc[d].farm
         /\ cursor[cyc[c].farm].k = "dict")
            => ~(/\ cyc[c].start = cursor[cyc[c].farm].updated_at
                 /\ cyc[d].start = cursor[cyc[c].farm].updated_at)

\* C22: a cycle that fetched observations and sent every batch without the
\* sink raising has set the cursor to the maximum timestamp it fetched, also
\* when the sink accepted fewer records than the cycle fetched (none included),
\* so that the returned count is below the number fetched.
C22_CursorIgnoresAcceptedCounts ==
    \A c \in Cycles :
        (/\ cyc[c].pc = "done" /\ cyc[c].wrote
         /\ cyc[c].obs.tag = "list" /\ cyc[c].obs.len >= 1
         /\ cyc[c].sent = NumBatches(cyc[c].obs.len) /\ ~cyc[c].sink_raised
         /\ cyc[c].observations_extracted < cyc[c].obs.len)
            => /\ cyc[c].out = Ret([observations_extracted |->
                                      cyc[c].observations_extracted])
               /\ cursor[cyc[c].farm].updated_at = cyc[c].obs.latest.time

====
